---- MODULE Spec2Model ----
(***************************************************************************)
(* A model of the RADIUS dissector, epan/dissectors/packet-radius.c:       *)
(* dissect_radius (the packet decoder), dissect_attribute_value_pairs (the *)
(* AVP walker with its EAP reassembly) and radius_decrypt_avp.             *)
(*                                                                         *)
(* Bytes are the naturals 0..255, a tvbuff is the sequence of its bytes    *)
(* and tvbuff offsets count from 0 as in the C code.  A tvbuff accessor    *)
(* that is handed bytes outside the buffer throws; an exception unwinds    *)
(* the whole dissection, which the model records as outcome "BoundsError". *)
(***************************************************************************)
EXTENDS Integers, Sequences, FiniteSets, TLC

VARIABLES
    tvb,            \* the received datagram payload
    tree,           \* proto_tree* tree of dissect_radius: TRUE when non-NULL
    dict,           \* the dictionary: attrs_by_id and vendors_by_id
    shared_secret,  \* the shared-secret preference, a sequence of characters
    authenticator,  \* static guint8 authenticator[AUTHENTICATOR_LENGTH]
    eap_buffer,     \* static guint8 eap_buffer[]: the bytes written so far
    pc,             \* "start", "walk" (top of the do-while), "post_loop", "done"
    outcome,        \* how the dissection ended
    offset,         \* int offset of dissect_attribute_value_pairs
    length,         \* int length of dissect_attribute_value_pairs
    last_eap,       \* gboolean last_eap
    eap_seg_num,    \* guint eap_seg_num
    eap_tot_len,    \* guint eap_tot_len
    eap_tree,       \* TRUE when eap_tree is non-NULL
    eap_tvb,        \* -1 when NULL, else the length of the tvbuff laid over eap_buffer
    events,         \* the AVP items added to the tree, in order
    calls,          \* the side effects of dissect_radius, in order
    eap_calls,      \* the byte blobs handed to the EAP dissector, in order
    cipher,         \* radius_decrypt_avp on its own: the value bytes it is given
    plain,          \* the bytes each application of the transform produced
    dest,           \* the display string of the latest application
    parked,         \* a second thread's dissection while it is not running, or NoThread
    seen,           \* the dissections that ended earlier, in order
    registered      \* the radius_register_avp_dissector calls made, in order

decvars == <<cipher, plain, dest>>

\* what lies around one dissection: another thread, earlier packets, registrations
envvars == <<parked, seen, registered>>

vars == <<tvb, tree, dict, shared_secret, authenticator, eap_buffer, pc, outcome,
          offset, length, last_eap, eap_seg_num, eap_tot_len, eap_tree, eap_tvb,
          events, calls, eap_calls, cipher, plain, dest, parked, seen, registered>>

-----------------------------------------------------------------------------
(* Program constants *)

AUTHENTICATOR_LENGTH == 16
RD_HDR_LENGTH == 4
MAX_RADIUS_PACKET_SIZE == 4096
RADIUS_VENDOR_SPECIFIC_CODE == 26
RADIUS_EAP_MESSAGE_CODE == 79
VENDOR_COSINE == 3085
MaxTag == 31
MinAvpLength == 3
VsaHeaderLength == 8
AvpHeaderLength == 2
\* an AVP value can be at most 253 bytes
MaxValueLength == 253
\* gchar buffer[1024] of radius_string
BufferSize == 1024

-----------------------------------------------------------------------------
(* tvbuff accessors.  Each reader has a guard saying when it does not throw. *)

tvb_length(t) == Len(t)

\* tvb_bytes_exist never throws
tvb_bytes_exist(t, off, len) == off >= 0 /\ len >= 0 /\ off + len <= Len(t)

tvb_get_guint8(t, off) == t[off + 1]

tvb_get_ntohs(t, off) == t[off + 1] * 256 + t[off + 2]

tvb_get_ntohl(t, off) ==
    ((t[off + 1] * 256 + t[off + 2]) * 256 + t[off + 3]) * 256 + t[off + 4]

tvb_memcpy(t, off, len) == SubSeq(t, off + 1, off + len)

\* tvb_ensure_length_remaining throws unless at least one byte lies at off
tvb_ensure_length_remaining_ok(t, off) == off >= 0 /\ off < Len(t)

\* A value region handed to a tvbuff routine: a length of -1 means "to the end
\* of the buffer", a length below -1 throws, and so does a region that leaves
\* the buffer.
RegionOk(t, off, len) ==
    /\ off >= 0
    /\ off <= Len(t)
    /\ len >= -1
    /\ (len >= 0 => off + len <= Len(t))

RegionLen(t, off, len) == IF len = -1 THEN Len(t) - off ELSE len

RegionBytes(t, off, len) == SubSeq(t, off + 1, off + RegionLen(t, off, len))

-----------------------------------------------------------------------------
(* The dictionary.  The loader is outside this file; the model uses a small  *)
(* dictionary with one attribute of each kind the walker distinguishes.      *)
(* hf_tag says whether the entry's hf_tag is the index of a registered       *)
(* field: register_attrs (lines 657-665) registers it for tagged entries.    *)

no_dictionary_entry ==
    [name |-> <<"Unknown-Attribute">>, code |-> 0, encrypt |-> FALSE, tagged |-> FALSE,
     type |-> "radius_octets", dissector |-> "NULL", hf_tag |-> FALSE]

AttrInfo(n, c, e, tg, ty, d) ==
    [name |-> <<n>>, code |-> c, encrypt |-> e, tagged |-> tg, type |-> ty, dissector |-> d,
     hf_tag |-> tg]

LoadedDictionary ==
    [attrs_by_id |->
        (1 :> AttrInfo("User-Name", 1, FALSE, FALSE, "radius_string", "NULL")) @@
        (2 :> AttrInfo("User-Password", 2, TRUE, FALSE, "radius_string", "NULL")) @@
        (4 :> AttrInfo("NAS-IP-Address", 4, FALSE, FALSE, "radius_ipaddr", "NULL")) @@
        (5 :> AttrInfo("NAS-Port", 5, FALSE, FALSE, "radius_integer", "NULL")) @@
        (55 :> AttrInfo("Event-Timestamp", 55, FALSE, FALSE, "radius_date", "NULL")) @@
        (95 :> AttrInfo("NAS-IPv6-Address", 95, FALSE, FALSE, "radius_ipv6addr", "NULL")) @@
        (64 :> AttrInfo("Tunnel-Type", 64, FALSE, TRUE, "radius_integer", "NULL")),
     vendors_by_id |->
        (9 :> [name |-> <<"Cisco">>, code |-> 9,
               attrs_by_id |->
                 (1 :> AttrInfo("Cisco-AVPair", 1, FALSE, FALSE, "radius_string", "NULL")) @@
                 (2 :> AttrInfo("Cisco-Tagged", 2, FALSE, TRUE, "radius_octets", "NULL")) @@
                 (3 :> AttrInfo("Cisco-Secret", 3, TRUE, FALSE, "radius_string", "NULL"))]) @@
        (VENDOR_COSINE :> [name |-> <<"CoSine">>, code |-> VENDOR_COSINE,
               attrs_by_id |->
                 (5 :> AttrInfo("CoSine-VPI-VCI", 5, FALSE, FALSE, "radius_string", "NULL"))])]

-----------------------------------------------------------------------------
(* radius_register_avp_dissector *)

\* Variant: a pair that already has a dissector keeps it.
WithDissector_KeepFirst(entry, dissector) ==
    IF entry.dissector = "NULL" THEN [entry EXCEPT !.dissector = dissector] ELSE entry

\* dictionary_entry->dissector = radius_avp_dissector
WithDissector(entry, dissector) == [entry EXCEPT !.dissector = dissector]

\* What the fields of a g_malloc'ed entry that are never assigned can hold:
\* tagged zero or not, hf_tag the index of a registered field or not
Garbage == [tagged : BOOLEAN, hf_tag : BOOLEAN]

\* The entry it creates comes from g_malloc and its tagged and hf_tag fields
\* are never assigned: garbage is what they happen to hold.
RegisterAvpDissector(d, vendor_id, attribute_id, dissector, garbage) ==
    LET newEntry == [name |-> <<"Unknown-Attribute-", attribute_id>>,
                     code |-> attribute_id,
                     encrypt |-> FALSE, tagged |-> garbage.tagged, type |-> "NULL",
                     dissector |-> "NULL", hf_tag |-> garbage.hf_tag]
        newVendor == [name |-> <<"Unknown-Vendor-", vendor_id>>, code |-> vendor_id,
                      attrs_by_id |-> <<>>]
        vendors1 == IF vendor_id # 0 /\ vendor_id \notin DOMAIN d.vendors_by_id
                    THEN d.vendors_by_id @@ (vendor_id :> newVendor)
                    ELSE d.vendors_by_id
        by_id == IF vendor_id # 0 THEN vendors1[vendor_id].attrs_by_id
                 ELSE d.attrs_by_id
        entry == IF attribute_id \in DOMAIN by_id THEN by_id[attribute_id]
                 ELSE newEntry
        by_id1 == [c \in DOMAIN by_id \cup {attribute_id} |->
                     IF c = attribute_id
                     THEN WithDissector(entry, dissector)
                     ELSE by_id[c]]
    IN  IF vendor_id # 0
        THEN [d EXCEPT !.vendors_by_id =
                [v \in DOMAIN vendors1 |->
                   IF v = vendor_id
                   THEN [vendors1[v] EXCEPT !.attrs_by_id = by_id1]
                   ELSE vendors1[v]]]
        ELSE [d EXCEPT !.attrs_by_id = by_id1]

\* proto_reg_handoff_radius registers the CoSine VP/VC decoder
HandoffDictionary ==
    RegisterAvpDissector(LoadedDictionary, VENDOR_COSINE, 5, "dissect_cosine_vpvc",
                         [tagged |-> FALSE, hf_tag |-> FALSE])

-----------------------------------------------------------------------------
(* radius_decrypt_avp *)

RECURSIVE XorBits(_, _, _)
XorBits(a, b, n) ==
    IF n = 0 THEN 0
    ELSE (((a % 2) + (b % 2)) % 2) + 2 * XorBits(a \div 2, b \div 2, n - 1)

\* c = pd[i] ^ digest[i] on guint8
XorByte(a, b) == XorBits(a, b, 8)

RECURSIVE SumSeq(_)
SumSeq(s) == IF s = <<>> THEN 0 ELSE Head(s) + SumSeq(Tail(s))

\* md5_init, md5_append(shared_secret), md5_append(authenticator), md5_finish.
\* The MD5 library is outside this file; the digest here is a 16-byte value
\* that is a function of the two appended inputs and of their order.
md5_digest(secret, auth) ==
    LET msg == secret \o auth
    IN  [i \in 1..16 |->
           ((SumSeq(msg) * 7) + (Len(secret) * 13) + (i * 31)
              + (IF i <= Len(msg) THEN msg[i] ELSE 0)) % 256]

isprint(c) == c >= 32 /\ c <= 126

\* Variant: the digest is reused as a repeating key stream over the whole value.
DecryptByte_Repeating(pd, digest, i) ==
    XorByte(pd[i + 1], digest[(i % 16) + 1])

\* The byte written for index i (0-based): the first loop XORs while
\* i < AUTHENTICATOR_LENGTH and i < length, the second passes the rest through.
DecryptByte(pd, digest, i) ==
    IF i < AUTHENTICATOR_LENGTH THEN XorByte(pd[i + 1], digest[i + 1]) ELSE pd[i + 1]

DecryptedBytes(pd, len, digest) ==
    [i \in 1..(IF len > 0 THEN len ELSE 0) |-> DecryptByte(pd, digest, i - 1)]

\* Variant: c is a plain char, so a byte above 127 is negative and "%03o"
\* prints the 11 octal digits of its sign-extended value.
RenderByte_Signed(c) ==
    IF isprint(c) THEN <<c>>
    ELSE IF c < 128
    THEN <<92, 48 + (c \div 64), 48 + ((c \div 8) % 8), 48 + (c % 8)>>
    ELSE <<92, 51, 55, 55, 55, 55, 55, 55, 55, 48 + (c \div 64), 48 + ((c \div 8) % 8),
           48 + (c % 8)>>

\* isprint(c) ? c : sprintf("\\%03o", c)
RenderByte(c) ==
    IF isprint(c) THEN <<c>>
    ELSE <<92, 48 + (c \div 64), 48 + ((c \div 8) % 8), 48 + (c % 8)>>

\* the renderings of the bytes of s in order, by halves
RECURSIVE RenderBytes(_)
RenderBytes(s) ==
    IF Len(s) = 0 THEN <<>>
    ELSE IF Len(s) = 1 THEN RenderByte(s[1])
    ELSE RenderBytes(SubSeq(s, 1, Len(s) \div 2))
             \o RenderBytes(SubSeq(s, Len(s) \div 2 + 1, Len(s)))

\* dest, without its terminating NUL
radius_decrypt_avp(pd, len, secret, auth) ==
    <<34>> \o RenderBytes(DecryptedBytes(pd, len, md5_digest(secret, auth))) \o <<34>>

-----------------------------------------------------------------------------
(* The value decoders.  Each yields [throws, note, out, by]: whether a       *)
(* tvbuff access threw, the inline note appended to the item, the bytes or   *)
(* characters shown, and the function the walker called to get them.         *)

Shown(nt, o) == [throws |-> FALSE, note |-> nt, out |-> o, by |-> "none"]
Thrown == [throws |-> TRUE, note |-> "exception", out |-> <<>>, by |-> "none"]

\* v as the result of the call of the function named by
Invoked(by, v) == [v EXCEPT !.by = by]

\* proto_tree_add_item over the value region, then the bytes as text
ShowRegion(t, off, len) ==
    IF RegionOk(t, off, len) THEN Shown("", RegionBytes(t, off, len)) ELSE Thrown

radius_integer(t, off, len) ==
    IF len \in {2, 3, 4, 8}
    THEN ShowRegion(t, off, len)
    ELSE Shown("[unhandled integer length]", <<>>)

radius_string(a, t, off, len, secret, auth) ==
    IF a.encrypt
    THEN IF secret = <<>>
         THEN IF RegionOk(t, off, len)
              THEN Shown("Encrypted", RegionBytes(t, off, len)) ELSE Thrown
         ELSE IF RegionOk(t, off, len)
              THEN Shown("Decrypted",
                         radius_decrypt_avp(RegionBytes(t, off, len), len, secret, auth))
              ELSE Thrown
    ELSE ShowRegion(t, off, len)

radius_octets(t, off, len) == ShowRegion(t, off, len)

\* Variant: a wrong length is handed to the tvbuff reader, which throws.
radius_ipaddr_Throws(t, off, len) ==
    IF len # 4 THEN Thrown
    ELSE ShowRegion(t, off, len)

radius_ipaddr(t, off, len) ==
    IF len # 4 THEN Shown("[wrong lenght for IP address]", <<>>)
    ELSE ShowRegion(t, off, len)

radius_ipv6addr(t, off, len) ==
    IF len # 16 THEN Shown("[wrong lenght for IPv6 address]", <<>>)
    ELSE ShowRegion(t, off, len)

radius_date(t, off, len) ==
    IF len # 4 THEN Shown("[wrong lenght for timestamp]", <<>>)
    ELSE ShowRegion(t, off, len)

\* dictionary_entry->type(dictionary_entry, avp_tree, pinfo, tvb, offset, avp_length, avp_item)
CallType(a, t, off, len, secret, auth) ==
    CASE a.type = "radius_integer" -> radius_integer(t, off, len)
      [] a.type = "radius_string" -> radius_string(a, t, off, len, secret, auth)
      [] a.type = "radius_ipaddr" -> radius_ipaddr(t, off, len)
      [] a.type = "radius_ipv6addr" -> radius_ipv6addr(t, off, len)
      [] a.type = "radius_date" -> radius_date(t, off, len)
      [] OTHER -> radius_octets(t, off, len)

dissect_cosine_vpvc(value) ==
    IF tvb_length(value) # 4 THEN Shown("[Wrong Lenght for VP/VC AVP]", <<>>)
    ELSE Shown("", <<tvb_get_ntohs(value, 0), tvb_get_ntohs(value, 2)>>)

\* A radius_avp_dissector_t that another dissector registers: it returns the
\* bytes of the value it is handed.
plugin_avp_dissector(value) == Shown("", value)

\* tvb_new_subset(tvb, offset, (gint) avp_length, (gint) avp_length), then the
\* registered dissector on the subset
CallDissector(a, t, off, len) ==
    IF ~RegionOk(t, off, len) THEN Thrown
    ELSE IF a.dissector = "dissect_cosine_vpvc"
    THEN Invoked(a.dissector, dissect_cosine_vpvc(RegionBytes(t, off, len)))
    ELSE Invoked(a.dissector, plugin_avp_dissector(RegionBytes(t, off, len)))

\* lines 485-498: the registered dissector if there is one, else the type decoder
DecodeValue(a, t, off, len, secret, auth) ==
    IF a.dissector # "NULL" THEN CallDissector(a, t, off, len)
    ELSE Invoked(a.type, CallType(a, t, off, len, secret, auth))

-----------------------------------------------------------------------------
(* dissect_attribute_value_pairs: the AVP walker *)

\* Variant: the test lets a declared length of 2 through.
AvpTooShort_Below2(avp_length) == avp_length < 2

\* if (avp_length < 3)
AvpTooShort(avp_length) == avp_length < MinAvpLength

\* length -= avp_length
RemainingAfter(len, avp_length) == len - avp_length

\* Variant: the value length drops the vendor-id and sub-header but not the
\* outer header, while the cursor still skips all 8 bytes.
VsaValueLength_Minus6(avp_length) == avp_length - 6

\* avp_length -= 8 on guint32.  The model keeps the representative that the
\* (gint) conversions at the uses below see: 7 - 8 is -1, not 4294967295.
VsaValueLength(avp_length) == avp_length - VsaHeaderLength

\* guint eap_seg_len = avp_length - 2
EapSegLen(avp_length) == avp_length - AvpHeaderLength

\* Variant: the copy starts at the AVP header instead of the value.
EapSegment_FromHeader(t, off, avp_length) == tvb_memcpy(t, off, avp_length - 2)

\* tvb_memcpy(tvb, eap_buffer + eap_tot_len, offset + 2, eap_seg_len)
EapSegment(t, off, avp_length) == tvb_memcpy(t, off + AvpHeaderLength, EapSegLen(avp_length))

\* Variant: the test forgets the segment about to be copied.
EapOverflows_TotalOnly(tot, seg_len) == tot > 4096

\* if (eap_tot_len + eap_seg_len > sizeof(eap_buffer))
EapOverflows(tot, seg_len) == tot + seg_len > MAX_RADIUS_PACKET_SIZE

\* eap_buffer after the tvb_memcpy of seg at position tot
EapBufferWrite(buf, tot, seg) ==
    SubSeq(buf, 1, tot) \o seg \o SubSeq(buf, tot + Len(seg) + 1, Len(buf))

\* lines 423-431: the peek at the next AVP's type
LastEapAfter(t, off, avp_length, last) ==
    IF tvb_bytes_exist(t, off, avp_length + 3)
    THEN (IF tvb_get_guint8(t, off + avp_length) # RADIUS_EAP_MESSAGE_CODE
          THEN TRUE ELSE last)
    ELSE TRUE

\* Variant: the loop only ends on a remaining length of exactly zero.
LoopAgain_Nonzero(len) == len # 0

\* while (length > 0)
LoopAgain(len) == len > 0

\* An exception leaves the walker: nothing after the throw runs.
Throw(len) ==
    /\ pc' = "done"
    /\ outcome' = "BoundsError"
    /\ length' = len
    /\ UNCHANGED <<offset, last_eap, eap_seg_num, eap_tot_len, eap_tree, eap_tvb,
                   eap_buffer>>

\* proto_tree_add_uint (line 476) with an hf_tag that is not the index of a
\* registered unsigned field fails its assertion: the dissection is left.
Abort(len) ==
    /\ pc' = "done"
    /\ outcome' = "AssertionFailed"
    /\ length' = len
    /\ UNCHANGED <<offset, last_eap, eap_seg_num, eap_tot_len, eap_tree, eap_tvb,
                   eap_buffer>>

\* A return from inside the loop.
Return(oc, len) ==
    /\ pc' = "done"
    /\ outcome' = oc
    /\ length' = len
    /\ UNCHANGED <<offset, last_eap, eap_seg_num, eap_tot_len, eap_tree, eap_tvb,
                   eap_buffer, events>>

\* The tree items.  avp_item is created at line 384 for every AVP that passes
\* the length test; the model records it in events once its type label has
\* been appended (lines 405 and 457, 435 and 444 for EAP-Message segments), so
\* an AVP that the walker leaves before labelling it has no entry.  An entry
\* whose note is "exception" was labelled and then left without a value.
AttrEvent(at, avp_type, avp_length, vendor_name, a, code, tag, voff, vlen, v) ==
    [kind |-> "attr", at |-> at, avp_type |-> avp_type, avp_length |-> avp_length,
     vendor |-> vendor_name, name |-> a.name, code |-> code, tag |-> tag,
     voff |-> voff, vlen |-> vlen, note |-> v.note, out |-> v.out, by |-> v.by]

EapEvent(at, avp_length, seg, last) ==
    [kind |-> "eap", at |-> at, avp_type |-> RADIUS_EAP_MESSAGE_CODE,
     avp_length |-> avp_length, vendor |-> <<>>, name |-> <<"EAP-Message">>,
     code |-> RADIUS_EAP_MESSAGE_CODE, tag |-> -1, voff |-> at + AvpHeaderLength,
     vlen |-> EapSegLen(avp_length),
     note |-> IF last THEN "Last Segment" ELSE "Segment", out |-> <<seg>>,
     by |-> "none"]

\* Variant: a first value byte of 0x1f is no longer taken as a tag.
HasTag_Below(a, tag) == a.tagged /\ tag < MaxTag

\* lines 470-474: if (dictionary_entry->tagged) ... if (tag <= 0x1f)
HasTag(a, tag) == a.tagged /\ tag <= MaxTag

\* lines 463-502: tag, value decoder, advance, loop test.  off1 and len1 are
\* offset and avp_length after the header has been skipped.
DecodeAttribute(a, vendor_name, code, avp_type, outer, off1, len1, len) ==
    IF a.tagged /\ ~tvb_bytes_exist(tvb, off1, 1)
    THEN /\ events' = Append(events,
                AttrEvent(offset, avp_type, outer, vendor_name, a, code, -1, off1, len1,
                          Thrown))
         /\ Throw(len)
    ELSE LET tag == IF a.tagged THEN tvb_get_guint8(tvb, off1) ELSE -1
             has_tag == HasTag(a, tag)
             off2 == IF has_tag THEN off1 + 1 ELSE off1
             len2 == IF has_tag THEN len1 - 1 ELSE len1
             v == DecodeValue(a, tvb, off2, len2, shared_secret, authenticator)
             ev == AttrEvent(offset, avp_type, outer, vendor_name, a, code,
                             IF has_tag THEN tag ELSE -1, off2, len2, v)
         IN  IF has_tag /\ ~a.hf_tag
             THEN /\ events' = Append(events,
                         AttrEvent(offset, avp_type, outer, vendor_name, a, code, -1,
                                   off1, len1, Thrown))
                  /\ Abort(len)
             ELSE
             /\ events' = Append(events, ev)
             /\ IF v.throws
                THEN Throw(len)
                ELSE /\ offset' = off2 + len2
                     /\ length' = len
                     /\ pc' = IF LoopAgain(len) THEN "walk" ELSE "post_loop"
                     /\ UNCHANGED <<outcome, last_eap, eap_seg_num, eap_tot_len,
                                    eap_tree, eap_tvb, eap_buffer>>

\* lines 386-409
WalkVendorSpecific(avp_length, len) ==
    IF ~tvb_bytes_exist(tvb, offset + 2, 6)
    THEN /\ Throw(len)
         /\ UNCHANGED events
    ELSE LET vendor_id == tvb_get_ntohl(tvb, offset + 2)
             avp_vsa_type == tvb_get_guint8(tvb, offset + 6)
             known == vendor_id \in DOMAIN dict.vendors_by_id
             vendor_name == IF known THEN dict.vendors_by_id[vendor_id].name
                            ELSE <<"Unknown">>
             a == IF known /\ avp_vsa_type \in DOMAIN dict.vendors_by_id[vendor_id].attrs_by_id
                  THEN dict.vendors_by_id[vendor_id].attrs_by_id[avp_vsa_type]
                  ELSE no_dictionary_entry
         IN  DecodeAttribute(a, vendor_name, avp_vsa_type, RADIUS_VENDOR_SPECIFIC_CODE,
                             avp_length, offset + VsaHeaderLength,
                             VsaValueLength(avp_length), len)

\* lines 410-448
WalkEapMessage(avp_length, len) ==
    IF EapOverflows(eap_tot_len, EapSegLen(avp_length))
    THEN Return("EapTooLong", len)
    ELSE LET seg == EapSegment(tvb, offset, avp_length)
             tot == eap_tot_len + EapSegLen(avp_length)
             last == LastEapAfter(tvb, offset, avp_length, last_eap)
         IN  /\ eap_buffer' = EapBufferWrite(eap_buffer, eap_tot_len, seg)
             /\ eap_tot_len' = tot
             /\ eap_seg_num' = eap_seg_num + 1
             /\ last_eap' = last
             /\ eap_tree' = (IF last THEN TRUE ELSE eap_tree)
             /\ eap_tvb' = (IF last THEN tot ELSE eap_tvb)
             /\ events' = Append(events,
                    EapEvent(offset, avp_length, eap_seg_num + 1, last))
             /\ offset' = offset + avp_length
             /\ length' = len
             /\ pc' = IF LoopAgain(len) THEN "walk" ELSE "post_loop"
             /\ UNCHANGED outcome

\* Variant: a code the dictionary lacks ends the walk.
WalkPlain_StopsOnUnknown(avp_type, avp_length, len) ==
    IF avp_type \notin DOMAIN dict.attrs_by_id
    THEN Return("AvpTooShort", len)
    ELSE DecodeAttribute(dict.attrs_by_id[avp_type], <<>>, avp_type, avp_type, avp_length,
                         offset + AvpHeaderLength, avp_length - AvpHeaderLength, len)

\* lines 449-461
WalkPlain(avp_type, avp_length, len) ==
    LET a == IF avp_type \in DOMAIN dict.attrs_by_id THEN dict.attrs_by_id[avp_type]
             ELSE no_dictionary_entry
    IN  DecodeAttribute(a, <<>>, avp_type, avp_type, avp_length,
                        offset + AvpHeaderLength, avp_length - AvpHeaderLength, len)

\* One pass of the do-while body, lines 363-502.
WalkAvp ==
    /\ pc = "walk"
    /\ UNCHANGED <<tvb, tree, dict, shared_secret, authenticator, calls, eap_calls>>
    /\ UNCHANGED decvars
    /\ UNCHANGED envvars
    /\ IF ~tvb_bytes_exist(tvb, offset, 2)
       THEN /\ Throw(length)
            /\ UNCHANGED events
       ELSE LET avp_type == tvb_get_guint8(tvb, offset)
                avp_length == tvb_get_guint8(tvb, offset + 1)
                len == RemainingAfter(length, avp_length)
            IN  IF AvpTooShort(avp_length)
                THEN Return("AvpTooShort", length)
                ELSE IF ~tvb_ensure_length_remaining_ok(tvb, offset + avp_length - 1)
                THEN /\ Throw(len)
                     /\ UNCHANGED events
                ELSE IF avp_type = RADIUS_VENDOR_SPECIFIC_CODE
                THEN WalkVendorSpecific(avp_length, len)
                ELSE IF avp_type = RADIUS_EAP_MESSAGE_CODE
                THEN WalkEapMessage(avp_length, len)
                ELSE WalkPlain(avp_type, avp_length, len)

\* lines 504-506: after the loop, call_dissector(eap_fragment_handle, eap_tvb, ...).
\* eap_tvb is laid over the static eap_buffer, so the dissector sees the bytes
\* the buffer holds now.
CallEapDissector ==
    /\ pc = "post_loop"
    /\ pc' = "done"
    /\ outcome' = "ok"
    /\ eap_calls' = IF eap_tree /\ eap_tvb # -1
                    THEN Append(eap_calls, SubSeq(eap_buffer, 1, eap_tvb))
                    ELSE eap_calls
    /\ UNCHANGED <<tvb, tree, dict, shared_secret, authenticator, eap_buffer, offset,
                   length, last_eap, eap_seg_num, eap_tot_len, eap_tree, eap_tvb,
                   events, calls>>
    /\ UNCHANGED decvars
    /\ UNCHANGED envvars

-----------------------------------------------------------------------------
(* dissect_radius: the packet decoder *)

hdrlength == RD_HDR_LENGTH + AUTHENTICATOR_LENGTH

\* rhlength = g_ntohs(rh.rh_pktlength)
RhLength(t) == tvb_get_ntohs(t, 2)

\* avplength = rhlength - hdrlength, a gint
AvpLength(rhlength) == rhlength - hdrlength

\* Variant: avplength held in an unsigned variable, never below zero.
BogusLength_Unsigned(avplength) == FALSE

\* the else branch of if (avplength >= 0)
BogusLength(avplength) == ~(avplength >= 0)

\* tvb_memcpy(tvb, authenticator, 0, AUTHENTICATOR_LENGTH)
CopiedAuthenticator(t) == tvb_memcpy(t, 0, AUTHENTICATOR_LENGTH)

Finish(oc) ==
    /\ pc' = "done"
    /\ outcome' = oc
    /\ UNCHANGED <<offset, length, last_eap, eap_seg_num, eap_tot_len, eap_tree,
                   eap_tvb>>

\* Variant: the accumulated EAP size outlives the call, as eap_buffer does.
EnterWalker_KeepsEap(off, len) ==
    /\ last_eap' = FALSE
    /\ eap_seg_num' = 0
    /\ eap_tot_len' = eap_tot_len
    /\ eap_tree' = FALSE
    /\ eap_tvb' = -1
    /\ offset' = off
    /\ length' = len
    /\ pc' = IF len = 0 THEN "done" ELSE "walk"
    /\ outcome' = IF len = 0 THEN "NoAvps" ELSE outcome

\* The call of dissect_attribute_value_pairs up to the top of its loop
\* (lines 350-362): the locals are initialised, a zero length returns at once.
EnterWalker(off, len) ==
    /\ last_eap' = FALSE
    /\ eap_seg_num' = 0
    /\ eap_tot_len' = 0
    /\ eap_tree' = FALSE
    /\ eap_tvb' = -1
    /\ offset' = off
    /\ length' = len
    /\ pc' = IF len = 0 THEN "done" ELSE "walk"
    /\ outcome' = IF len = 0 THEN "NoAvps" ELSE outcome

DissectRadius ==
    /\ pc = "start"
    /\ UNCHANGED <<tvb, tree, dict, shared_secret, eap_buffer, events, eap_calls>>
    /\ UNCHANGED decvars
    /\ UNCHANGED envvars
    /\ IF ~tvb_bytes_exist(tvb, 0, RD_HDR_LENGTH)
       THEN /\ Finish("BoundsError")
            /\ UNCHANGED <<authenticator, calls>>
       ELSE IF ~tree
       THEN /\ Finish("ok")
            /\ UNCHANGED <<authenticator, calls>>
       ELSE IF BogusLength(AvpLength(RhLength(tvb)))
       THEN /\ Finish("BogusHeaderLength")
            /\ UNCHANGED <<authenticator, calls>>
       ELSE IF ~tvb_bytes_exist(tvb, 4, AUTHENTICATOR_LENGTH)
       THEN /\ Finish("BoundsError")
            /\ UNCHANGED <<authenticator, calls>>
       ELSE /\ authenticator' = CopiedAuthenticator(tvb)
            /\ IF AvpLength(RhLength(tvb)) > 0
               THEN /\ EnterWalker(hdrlength, AvpLength(RhLength(tvb)))
                    /\ calls' = calls \o <<"tvb_memcpy_authenticator",
                                           "dissect_attribute_value_pairs">>
               ELSE /\ Finish("ok")
                    /\ calls' = Append(calls, "tvb_memcpy_authenticator")

-----------------------------------------------------------------------------
(* The datagrams the decoder is run on *)

\* The most AVP-shaped chunks in a generated AVP region
MaxAvps == 3

\* code, identifier, total_length (big-endian), 16 authenticator bytes
Header(total_length, seed) ==
    <<1, 7, total_length \div 256, total_length % 256>>
        \o [i \in 1..AUTHENTICATOR_LENGTH |-> (seed + i) % 256]

AuthSeed == 160

\* Byte strings an AVP region is assembled from: well-formed AVPs of each kind
\* and malformed ones.
AvpChunks ==
    { <<1, 5, 97, 98, 99>>,                 \* User-Name "abc"
      <<200, 3, 9>>,                        \* a code the dictionary lacks
      <<4, 2>>,                             \* declared length 2
      <<26, 9, 0, 0, 0, 9, 1, 3, 120>>,     \* Vendor-Specific, Cisco, sub-type 1
      <<26, 7, 0, 0, 0, 9, 1>>,             \* Vendor-Specific, outer length 7
      <<79, 4, 17, 18>>,                    \* EAP-Message, 2 value bytes
      <<79, 3, 33>>,                        \* EAP-Message, 1 value byte
      <<64, 6, 1, 0, 0, 13>>,               \* Tunnel-Type, tagged
      <<2, 4, 200, 65>> }                   \* User-Password, encrypted

RECURSIVE Regions(_, _)
Regions(chunks, n) ==
    IF n = 0 THEN {<<>>}
    ELSE LET shorter == Regions(chunks, n - 1)
         IN  shorter \cup {r \o c : r \in shorter, c \in chunks}

\* How a region is framed: the bytes that follow it in the datagram, and by
\* how much the header's total_length differs from 20 + the region's length.
Framings ==
    { [pad |-> <<>>, delta |-> 0],          \* exact
      [pad |-> <<>>, delta |-> 1],          \* datagram one byte short
      [pad |-> <<>>, delta |-> 3],          \* datagram three bytes short
      [pad |-> <<>>, delta |-> -1],         \* region ends inside its last AVP
      [pad |-> <<79, 3, 1>>, delta |-> 0],  \* padding that looks like an EAP-Message
      [pad |-> <<1, 3>>, delta |-> 0] }     \* other padding

Framed(region, f) == Header(hdrlength + Len(region) + f.delta, AuthSeed) \o region \o f.pad

FramedPackets ==
    {Framed(r, f) : r \in Regions(AvpChunks, MaxAvps), f \in Framings}

\* Headers whose total_length is below the header size, with and without bytes
\* after the header
BogusPackets ==
    {Header(tl, AuthSeed) \o r : tl \in 0..(hdrlength - 1),
                                 r \in {<<>>, <<1, 5, 97, 98, 99>>}}

\* Datagrams cut inside the header
ShortPackets ==
    {SubSeq(Header(hdrlength, AuthSeed), 1, n) : n \in 0..(hdrlength - 1)}

\* n bytes counting up from b
Fill(n, b) == [i \in 1..n |-> (b + i - 1) % 256]

EapAvp(n, b) == <<RADIUS_EAP_MESSAGE_CODE, n + AvpHeaderLength>> \o Fill(n, b)

\* Particular datagrams: EAP fragments of 10, 10 and 5 bytes before a User-Name;
\* a length-1 AVP at offset 20; Vendor-Specific AVPs of outer length 3..8;
\* one User-Name "testuser"; attributes the dictionary lacks (vendor 77,
\* sub-type 99 of vendor 9, code 200); a Vendor-Specific AVP whose sub-length
\* is not its outer length - 6; addresses and timestamps of right and wrong
\* lengths; tagged attributes with first value bytes 0x1f and 0x20.
ExamplePackets ==
    { Framed(<<26, 10, 0, 0, 0, 77, 1, 4, 50, 51>> \o <<26, 9, 0, 0, 0, 9, 99, 3, 60>>
                 \o <<200, 3, 9>> \o <<1, 5, 97, 98, 99>>,
             [pad |-> <<>>, delta |-> 0]),
      Framed(<<26, 10, 0, 0, 0, 9, 1, 3, 120, 121>> \o <<1, 5, 97, 98, 99>>,
             [pad |-> <<>>, delta |-> 0]),
      Framed(<<4, 5, 10, 0, 0>> \o <<55, 3, 1>> \o <<95, 6, 1, 2, 3, 4>>
                 \o <<1, 5, 97, 98, 99>>,
             [pad |-> <<>>, delta |-> 0]),
      Framed(<<4, 6, 10, 0, 0, 1>> \o <<55, 6, 1, 2, 3, 4>> \o (<<95, 18>> \o Fill(16, 32))
                 \o <<4, 7, 10, 0, 0, 1, 2>>,
             [pad |-> <<>>, delta |-> 0]),
      Framed(<<64, 6, 31, 0, 0, 13>> \o <<64, 6, 32, 0, 0, 13>>
                 \o <<26, 11, 0, 0, 0, 9, 2, 5, 31, 7, 8>>
                 \o <<26, 11, 0, 0, 0, 9, 2, 5, 32, 7, 8>> \o <<1, 5, 97, 98, 99>>,
             [pad |-> <<>>, delta |-> 0]) }
    \cup
    { Framed(EapAvp(10, 1) \o EapAvp(10, 11) \o EapAvp(5, 21) \o <<1, 5, 97, 98, 99>>,
             [pad |-> <<>>, delta |-> 0]),
      Framed(<<1, 1>>, [pad |-> <<>>, delta |-> 0]),
      Framed(<<1, 10, 116, 101, 115, 116, 117, 115, 101, 114>>,
             [pad |-> <<>>, delta |-> 0]),
      Framed(<<26, 8, 0, 0, 0, 9, 2, 2>>, [pad |-> <<>>, delta |-> 0]),
      Framed(<<26, 8, 0, 0, 0, 9, 2, 2, 1, 3, 97>>, [pad |-> <<>>, delta |-> 0]) }
    \cup {Framed(<<26, n>> \o Fill(n - 2, 0) \o <<1, 5, 97, 98, 99, 1, 3, 100>>,
                 [pad |-> <<>>, delta |-> 0]) : n \in 3..7}

\* A User-Password AVP of n value bytes chosen so that every byte that
\* radius_decrypt_avp writes under the secret "s3" is 0377, which is rendered
\* with four characters.
PasswordPacket(n) ==
    LET h == Header(hdrlength + n + AvpHeaderLength, AuthSeed)
        digest == md5_digest(<<115, 51>>, CopiedAuthenticator(h))
    IN  h \o <<2, n + AvpHeaderLength>>
          \o [i \in 1..n |-> IF i <= AUTHENTICATOR_LENGTH THEN 255 - digest[i] ELSE 255]

\* User-Password AVPs of every value length; encrypted Vendor-Specific
\* attributes of outer length 6..10 before a User-Name.
EncryptedPackets ==
    {PasswordPacket(n) : n \in 1..MaxValueLength}
    \cup {Framed(<<26, n, 0, 0, 0, 9, 3>> \o Fill(n - 7, 200) \o <<1, 5, 97, 98, 99>>,
                 [pad |-> <<>>, delta |-> 0]) : n \in 7..10}
    \cup {Framed(<<26, 6, 0, 0, 0, 9, 3, 3, 200>>, [pad |-> <<>>, delta |-> 0])}

Secrets == {<<>>, <<115, 51>>}

\* static storage starts zeroed
ZeroAuthenticator == [i \in 1..AUTHENTICATOR_LENGTH |-> 0]

InitStatics ==
    /\ dict = HandoffDictionary
    /\ eap_buffer = <<>>
    /\ pc = "start"
    /\ outcome = "none"
    /\ offset = 0
    /\ length = 0
    /\ last_eap = FALSE
    /\ eap_seg_num = 0
    /\ eap_tot_len = 0
    /\ eap_tree = FALSE
    /\ eap_tvb = -1
    /\ events = <<>>
    /\ calls = <<>>
    /\ eap_calls = <<>>
    /\ seen = <<>>
    /\ registered = <<>>

\* What a dissection keeps in its arguments and on its stack (the calls of
\* lines 510 and 350), with what it has produced so far
Thread(t, tr, p) ==
    [tvb |-> t, tree |-> tr, pc |-> p, outcome |-> "none", offset |-> 0, length |-> 0,
     last_eap |-> FALSE, eap_seg_num |-> 0, eap_tot_len |-> 0, eap_tree |-> FALSE,
     eap_tvb |-> -1, events |-> <<>>, calls |-> <<>>, eap_calls |-> <<>>]

\* no second thread
NoThread == Thread(<<>>, FALSE, "absent")

NoDecrypt ==
    /\ cipher = <<>>
    /\ plain = <<>>
    /\ dest = <<>>

Init ==
    /\ InitStatics
    /\ NoDecrypt
    /\ parked = NoThread
    /\ authenticator = ZeroAuthenticator
    /\ shared_secret \in Secrets
    /\ tvb \in FramedPackets \cup BogusPackets \cup ShortPackets \cup ExamplePackets
                 \cup EncryptedPackets
    /\ tree \in BOOLEAN

Next == DissectRadius \/ WalkAvp \/ CallEapDissector

Spec == Init /\ [][Next]_vars

-----------------------------------------------------------------------------
(* The dissection as a computation that goes on: dissect_radius runs to its  *)
(* end once it is called, nothing in it waits.                               *)

\* The most AVP-shaped chunks in a region here
MaxLiveAvps == 3

LiveChunks ==
    { <<200, 3, 9>>, <<4, 2>>, <<79, 3, 33>>, <<26, 9, 0, 0, 0, 9, 1, 3, 120>>,
      <<64, 6, 1, 0, 0, 13>> }

InitLive ==
    /\ InitStatics
    /\ NoDecrypt
    /\ parked = NoThread
    /\ authenticator = ZeroAuthenticator
    /\ shared_secret = <<>>
    /\ tvb \in {Framed(r, f) : r \in Regions(LiveChunks, MaxLiveAvps), f \in Framings}
    /\ tree = TRUE

SpecLive == InitLive /\ [][Next]_vars /\ WF_vars(Next)

-----------------------------------------------------------------------------
(* The walker on long EAP-Message runs: regions that start with up to       *)
(* MaxBigFragments EAP-Message AVPs of 253 value bytes each, which is where *)
(* the accumulated size passes MAX_RADIUS_PACKET_SIZE.                      *)

MaxBigFragments == 17

RECURSIVE Repeat(_, _)
Repeat(s, n) == IF n = 0 THEN <<>> ELSE s \o Repeat(s, n - 1)

BigTailChunks ==
    { EapAvp(48, 7), EapAvp(49, 7), EapAvp(1, 9), <<1, 5, 97, 98, 99>> }

BigEapPackets ==
    {Framed(Repeat(EapAvp(MaxValueLength, 0), k) \o r, [pad |-> <<>>, delta |-> 0]) :
        k \in (MaxBigFragments - 3)..MaxBigFragments,
        r \in Regions(BigTailChunks, 2)}

InitEapOverflow ==
    /\ InitStatics
    /\ NoDecrypt
    /\ parked = NoThread
    /\ authenticator = ZeroAuthenticator
    /\ shared_secret = <<>>
    /\ tvb \in BigEapPackets
    /\ tree = TRUE

SpecEapOverflow == InitEapOverflow /\ [][Next]_vars

-----------------------------------------------------------------------------
(* radius_decrypt_avp on its own, applied to a value and then to its own     *)
(* output, under one shared secret and authenticator.                        *)

DecryptInputs ==
    {[i \in 1..n |-> (seed + i * stride) % 256] :
        n \in 0..MaxValueLength, seed \in {0, 65, 250}, stride \in {0, 1, 37}}

InitDecrypt ==
    /\ InitStatics
    /\ parked = NoThread
    /\ tvb = <<>>
    /\ tree = FALSE
    /\ shared_secret \in {<<115, 51>>, <<1>>}
    /\ authenticator \in {Fill(AUTHENTICATOR_LENGTH, 1), Fill(AUTHENTICATOR_LENGTH, 200)}
    /\ cipher \in DecryptInputs
    /\ plain = <<>>
    /\ dest = <<>>

\* One call of radius_decrypt_avp: on cipher first, then on what the previous call
\* produced.
RadiusDecryptAvp ==
    /\ Len(plain) < 2
    /\ LET input == IF plain = <<>> THEN cipher ELSE plain[Len(plain)]
           digest == md5_digest(shared_secret, authenticator)
       IN  /\ plain' = Append(plain, DecryptedBytes(input, Len(input), digest))
           /\ dest' = radius_decrypt_avp(input, Len(input), shared_secret, authenticator)
    /\ UNCHANGED <<tvb, tree, dict, shared_secret, authenticator, eap_buffer, pc,
                   outcome, offset, length, last_eap, eap_seg_num, eap_tot_len,
                   eap_tree, eap_tvb, events, calls, eap_calls, cipher>>
    /\ UNCHANGED envvars

SpecDecrypt == InitDecrypt /\ [][RadiusDecryptAvp]_vars

-----------------------------------------------------------------------------
(* Two dissections on two threads.  authenticator (line 138) and eap_buffer  *)
(* (line 352) have static storage, so both threads use the same two arrays;  *)
(* everything else a dissection uses is in its arguments and on its stack.   *)
(* The threads interleave between the steps of the dissection.               *)

\* The most AVPs in a region of a packet dissected next to another
MaxThreadAvps == 2

ThreadChunks ==
    { <<2, 4, 200, 65>>, EapAvp(2, 17), EapAvp(3, 33), <<1, 5, 97, 98, 99>> }

ThreadPackets(seed) ==
    {Header(hdrlength + Len(r), seed) \o r : r \in Regions(ThreadChunks, MaxThreadAvps)}

\* The running dissection's arguments and stack
ThreadContext ==
    [tvb |-> tvb, tree |-> tree, pc |-> pc, outcome |-> outcome, offset |-> offset,
     length |-> length, last_eap |-> last_eap, eap_seg_num |-> eap_seg_num,
     eap_tot_len |-> eap_tot_len, eap_tree |-> eap_tree, eap_tvb |-> eap_tvb,
     events |-> events, calls |-> calls, eap_calls |-> eap_calls]

\* The other thread gets the processor: the two stacks change places, the
\* statics of lines 116, 136, 138 and 352 stay.
Switch ==
    /\ parked.pc # "absent"
    /\ parked' = ThreadContext
    /\ tvb' = parked.tvb
    /\ tree' = parked.tree
    /\ pc' = parked.pc
    /\ outcome' = parked.outcome
    /\ offset' = parked.offset
    /\ length' = parked.length
    /\ last_eap' = parked.last_eap
    /\ eap_seg_num' = parked.eap_seg_num
    /\ eap_tot_len' = parked.eap_tot_len
    /\ eap_tree' = parked.eap_tree
    /\ eap_tvb' = parked.eap_tvb
    /\ events' = parked.events
    /\ calls' = parked.calls
    /\ eap_calls' = parked.eap_calls
    /\ UNCHANGED <<dict, shared_secret, authenticator, eap_buffer, seen, registered>>
    /\ UNCHANGED decvars

InitInterleaved ==
    /\ InitStatics
    /\ NoDecrypt
    /\ authenticator = ZeroAuthenticator
    /\ shared_secret = <<115, 51>>
    /\ tree = TRUE
    /\ tvb \in ThreadPackets(AuthSeed)
    /\ parked \in {Thread(t, TRUE, "start") : t \in ThreadPackets(AuthSeed + 64)}

NextInterleaved == DissectRadius \/ WalkAvp \/ CallEapDissector \/ Switch

SpecInterleaved == InitInterleaved /\ [][NextInterleaved]_vars

-----------------------------------------------------------------------------
(* Packets dissected one after another.  The dissector handle of line 850 is *)
(* called once per packet; the statics keep what the last call left in them, *)
(* and a new call finds in its uninitialised stack what the last one left.   *)

\* The most dissections in a row
MaxPackets == 3

SequencePackets ==
    { Framed(<<2, 4, 200, 65>> \o EapAvp(3, 1) \o EapAvp(2, 4) \o <<1, 5, 97, 98, 99>>,
             [pad |-> <<>>, delta |-> 0]),
      Header(hdrlength + 12, AuthSeed + 64) \o EapAvp(5, 101) \o <<2, 5, 200, 65, 66>>,
      Header(hdrlength + 4, AuthSeed + 64) \o EapAvp(2, 201),
      Framed(EapAvp(3, 51) \o <<4, 2>>, [pad |-> <<>>, delta |-> 0]),
      Header(hdrlength - 1, AuthSeed + 32) \o <<1, 5, 97, 98, 99>>,
      Header(hdrlength, AuthSeed + 96),
      <<1, 7, 0>> }

\* Did this dissection call the walker
WalkerCalled == \E i \in 1..Len(calls) : calls[i] = "dissect_attribute_value_pairs"

\* What the dissection of a packet has given once it has ended.  The walker's
\* locals are part of it only when the walker was called.
Result ==
    [outcome |-> outcome, events |-> events, calls |-> calls, eap_calls |-> eap_calls,
     walker |-> IF WalkerCalled
                THEN <<eap_seg_num, eap_tot_len, last_eap,
                       SubSeq(eap_buffer, 1, eap_tot_len), authenticator>>
                ELSE <<>>]

\* The framework hands dissect_radius its next packet, one of packets, with a
\* tree or without.
Deliver(packets, trees) ==
    /\ pc = "done"
    /\ Len(seen) < MaxPackets - 1
    /\ seen' = Append(seen, [tvb |-> tvb, tree |-> tree, result |-> Result])
    /\ tvb' \in packets
    /\ tree' \in trees
    /\ pc' = "start"
    /\ outcome' = "none"
    /\ events' = <<>>
    /\ calls' = <<>>
    /\ eap_calls' = <<>>
    /\ UNCHANGED <<dict, shared_secret, authenticator, eap_buffer, offset, length,
                   last_eap, eap_seg_num, eap_tot_len, eap_tree, eap_tvb, parked,
                   registered>>
    /\ UNCHANGED decvars

NextPacket == Deliver(SequencePackets, BOOLEAN)

InitSequence ==
    /\ InitStatics
    /\ NoDecrypt
    /\ parked = NoThread
    /\ authenticator = ZeroAuthenticator
    /\ shared_secret = <<115, 51>>
    /\ tvb \in SequencePackets
    /\ tree \in BOOLEAN

NextSequence == DissectRadius \/ WalkAvp \/ CallEapDissector \/ NextPacket

SpecSequence == InitSequence /\ [][NextSequence]_vars

-----------------------------------------------------------------------------
(* Datagrams that carry bytes after the header's total_length.  The buffer   *)
(* dissect_radius is handed is the whole UDP payload (line 850), so what     *)
(* follows total_length is in reach of every tvbuff read.  Each region is    *)
(* dissected with different bytes after it.                                  *)

\* region is the AVP region [20, total_length), pad what follows it
Padded(region, pad) == Framed(region, [pad |-> pad, delta |-> 0])

\* A last AVP that declares 5 bytes where 4 remain; 1 byte of region left;
\* 2 bytes of region left; a lone EAP-Message; a region its AVP fills exactly.
PaddedPackets ==
    {Padded(<<1, 5, 97, 98>>, pad) : pad \in {<<99>>, <<100>>}}
    \cup {Padded(<<4>>, pad) : pad \in {<<2>>, <<3, 9>>}}
    \cup {Padded(<<200, 3>>, pad) : pad \in {<<9>>, <<10>>}}
    \cup {Padded(<<79, 3, 33>>, pad) : pad \in {<<>>, <<79, 3, 1>>}}
    \cup {Padded(<<1, 5, 97, 98, 99>>, pad) : pad \in {<<>>, <<1, 3>>}}

NextPadded == Deliver(PaddedPackets, {TRUE})

InitPadding ==
    /\ InitStatics
    /\ NoDecrypt
    /\ parked = NoThread
    /\ authenticator = ZeroAuthenticator
    /\ shared_secret = <<>>
    /\ tvb \in PaddedPackets
    /\ tree = TRUE

NextPadding == DissectRadius \/ WalkAvp \/ CallEapDissector \/ NextPadded

SpecPadding == InitPadding /\ [][NextPadding]_vars

-----------------------------------------------------------------------------
(* Registrations before a dissection: other dissectors call                 *)
(* radius_register_avp_dissector from their hand-off routines, as line 857  *)
(* does, and a packet is dissected afterwards.                              *)

\* The most registrations after the one of line 857
MaxRegistrations == 2

\* vendor 0 is the standard attribute space, 9 a vendor of the dictionary,
\* 311 one the dictionary lacks
RegisterVendors == {0, 9, 311}

\* 2 is in the dictionary for vendor 0 and for vendor 9, 7 for neither
RegisterCodes == {2, 7}

AvpDissectors == {"dissect_cosine_vpvc", "plugin_avp_dissector"}

RegisterPackets ==
    { Header(hdrlength + 39, AuthSeed)
          \o <<2, 4, 200, 65>> \o <<7, 4, 10, 11>>
          \o <<26, 11, 0, 0, 0, 9, 2, 5, 3, 121, 122>>
          \o <<26, 10, 0, 0, 0, 9, 7, 4, 40, 2>>
          \o <<26, 10, 0, 0, 0, 0, 7, 4, 41, 3>>,
      Header(hdrlength + 43, AuthSeed)
          \o <<26, 12, 0, 0, 1, 55, 2, 6, 40, 2, 3, 4>>
          \o <<26, 9, 0, 0, 1, 55, 7, 3, 5>>
          \o <<26, 12, 0, 0, 12, 13, 5, 6, 0, 1, 0, 2>>
          \o <<26, 10, 0, 0, 12, 13, 5, 4, 0, 1>> }

\* One call of radius_register_avp_dissector, from a hand-off routine
Register ==
    /\ pc = "start"
    /\ Len(registered) < MaxRegistrations
    /\ \E vendor_id \in RegisterVendors, attribute_id \in RegisterCodes,
          dissector \in AvpDissectors, garbage \in Garbage :
          /\ dict' = RegisterAvpDissector(dict, vendor_id, attribute_id, dissector, garbage)
          /\ registered' = Append(registered, <<vendor_id, attribute_id, dissector>>)
    /\ UNCHANGED <<tvb, tree, shared_secret, authenticator, eap_buffer, pc, outcome,
                   offset, length, last_eap, eap_seg_num, eap_tot_len, eap_tree, eap_tvb,
                   events, calls, eap_calls, parked, seen>>
    /\ UNCHANGED decvars

InitRegister ==
    /\ InitStatics
    /\ NoDecrypt
    /\ parked = NoThread
    /\ authenticator = ZeroAuthenticator
    /\ shared_secret = <<115, 51>>
    /\ tvb \in RegisterPackets
    /\ tree = TRUE

NextRegister == DissectRadius \/ WalkAvp \/ CallEapDissector \/ Register

SpecRegister == InitRegister /\ [][NextRegister]_vars

-----------------------------------------------------------------------------
(* Notions the properties below are stated with *)

\* The header was read and asks for at least the header's own size
HeaderRead == tvb_bytes_exist(tvb, 0, RD_HDR_LENGTH)

\* The AVP the walker stands at, when its two header bytes can be read
AtAvp == pc = "walk" /\ tvb_bytes_exist(tvb, offset, AvpHeaderLength)

\* The value bytes of the EAP-Message AVPs found by following the declared
\* lengths from off, while rem bytes of the region remain
RECURSIVE EapValueBytes(_, _, _)
EapValueBytes(t, off, rem) ==
    IF rem <= 0 \/ ~tvb_bytes_exist(t, off, AvpHeaderLength) THEN <<>>
    ELSE LET ty == t[off + 1]
             ln == t[off + 2]
         IN  IF ln < 3 \/ ~tvb_bytes_exist(t, off, ln) THEN <<>>
             ELSE (IF ty = 79 THEN SubSeq(t, off + 3, off + ln) ELSE <<>>)
                      \o EapValueBytes(t, off + ln, rem - ln)

\* The region [off, off + rem) is a sequence of well-formed AVPs that fills it
\* exactly: every length is at least 3, and a Vendor-Specific AVP holds one
\* nested sub-AVP of length at least 3 that fills its value.
RECURSIVE WellFormedRegion(_, _, _)
WellFormedRegion(t, off, rem) ==
    IF rem = 0 THEN TRUE
    ELSE /\ rem >= 3
         /\ tvb_bytes_exist(t, off, AvpHeaderLength)
         /\ LET ty == t[off + 1]
                ln == t[off + 2]
            IN  /\ ln >= 3
                /\ ln <= rem
                /\ tvb_bytes_exist(t, off, ln)
                /\ (ty = 26 => ln >= 9 /\ t[off + 8] = ln - 6)
                /\ WellFormedRegion(t, off + ln, rem - ln)

\* A valid packet with a non-empty AVP region
ValidPacket(t) ==
    /\ tvb_bytes_exist(t, 0, 20)
    /\ RhLength(t) > 20
    /\ RhLength(t) <= 4096
    /\ RhLength(t) <= Len(t)
    /\ WellFormedRegion(t, 20, RhLength(t) - 20)

-----------------------------------------------------------------------------
(* C1..C10 *)

\* C1: a Vendor-Specific AVP (type 26) whose outer declared length is below 8
\* is treated as malformed: the walker stops at it and no attribute is decoded
\* for it.  Stated as: no item of the tree is a decoded Vendor-Specific
\* attribute with outer length below 8.
C1_ShortVendorSpecificIsMalformed ==
    \A i \in 1..Len(events) :
        ~(/\ events[i].kind = "attr"
          /\ events[i].avp_type = RADIUS_VENDOR_SPECIFIC_CODE
          /\ events[i].avp_length < 8
          /\ events[i].note # "exception")

\* C2: once the packet decoder has processed the header of a packet, the
\* decryption key context holds the packet's authenticator, bytes 4..19.
C2_KeyContextIsAuthenticator ==
    (pc # "start" /\ tree /\ tvb_bytes_exist(tvb, 0, 20) /\ RhLength(tvb) >= 20)
        => authenticator = SubSeq(tvb, 5, 20)

\* C3: when the AVP the walker stands at declares a length below 3, the walker
\* stops there with the AVP-too-short report, adds no item for that AVP, keeps
\* the items added before it, and nothing is added once the decode has ended.
C3_ShortAvpStopsWalker ==
    [][ /\ (AtAvp /\ tvb_get_guint8(tvb, offset + 1) < 3)
            => (pc' = "done" /\ outcome' = "AvpTooShort" /\ events' = events
                /\ offset' = offset)
        /\ (pc = "done" => events' = events) ]_vars

C3_Witness ==
    /\ pc = "done"
    /\ outcome = "AvpTooShort"
    /\ Len(events) = 2
    /\ offset > 20

\* C4: the EAP dissector is called exactly once when a last EAP-Message
\* fragment was detected, also when a later AVP is malformed or overflows; it
\* is called only after the walker's loop, and never for a region without an
\* EAP-Message AVP.
C4_EapDissectorCalledOnce ==
    /\ (pc = "done" /\ outcome \in {"ok", "AvpTooShort", "EapTooLong"})
          => Len(eap_calls) = (IF last_eap THEN 1 ELSE 0)
    /\ (pc \in {"start", "walk"} => eap_calls = <<>>)
    /\ (eap_seg_num = 0 => eap_calls = <<>>)

\* C5: every blob handed to the EAP dissector is the concatenation, in the
\* order met, of the value bytes (declared length - 2 each) of the
\* EAP-Message AVPs of the region.
C5_EapBlobIsConcatenation ==
    \A i \in 1..Len(eap_calls) :
        /\ HeaderRead
        /\ eap_calls[i] = EapValueBytes(tvb, 20, RhLength(tvb) - 20)

C5_Witness ==
    /\ pc = "done"
    /\ eap_calls = <<Fill(25, 1)>>
    /\ eap_seg_num = 3
    /\ Len(events) = 4

\* C6: the accumulated EAP bytes never exceed 4096; a fragment that would
\* take the total past 4096 is not appended, and the decode of the region
\* ends at that fragment.
C6_EapAccumulationBounded ==
    /\ eap_tot_len <= 4096
    /\ Len(eap_buffer) <= 4096
    /\ outcome = "EapTooLong" =>
          /\ pc = "done"
          /\ tvb_get_guint8(tvb, offset) = 79
          /\ eap_tot_len + (tvb_get_guint8(tvb, offset + 1) - 2) > 4096
          /\ SubSeq(eap_buffer, 1, eap_tot_len) = EapValueBytes(tvb, 20, offset - 20)
          /\ \A i \in 1..Len(events) : events[i].at < offset

C6_Witness ==
    /\ outcome = "EapTooLong"
    /\ eap_tot_len = 4096
    /\ eap_seg_num = 17

C8_BogusHeaderLength ==
    (pc = "done" /\ HeaderRead /\ RhLength(tvb) < 20)
        => /\ authenticator = ZeroAuthenticator
           /\ calls = <<>>
           /\ events = <<>>
           /\ (tree => outcome = "BogusHeaderLength")

C8_Witness ==
    /\ pc = "done"
    /\ outcome = "BogusHeaderLength"
    /\ RhLength(tvb) = 19
    /\ Len(tvb) > 20

\* C9: when the datagram is shorter than the header's total_length, the decode
\* ends in the truncated-packet failure and in nothing else.
C9_TruncatedPacketFails ==
    (pc = "done" /\ tree /\ HeaderRead /\ RhLength(tvb) >= 20
                 /\ Len(tvb) < RhLength(tvb))
        => outcome = "BoundsError"

\* a ^ b, bit by bit
BitOf(a, k) == (a \div (2 ^ k)) % 2

BitwiseXor(a, b) ==
    LET bit(k) == IF BitOf(a, k) # BitOf(b, k) THEN 2 ^ k ELSE 0
    IN  bit(0) + bit(1) + bit(2) + bit(3) + bit(4) + bit(5) + bit(6) + bit(7)

\* C10: the transform writes value[i] XOR digest[i] for i < 16 and value[i]
\* unchanged for i >= 16, and applying it twice under one digest gives the
\* original bytes back, for every value length 0..253.
C10_DecryptTransform ==
    LET digest == md5_digest(shared_secret, authenticator)
    IN  /\ Len(plain) >= 1 =>
              /\ Len(plain[1]) = Len(cipher)
              /\ \A i \in 1..Len(cipher) :
                    plain[1][i] = IF i - 1 < 16
                                  THEN BitwiseXor(cipher[i], digest[i])
                                  ELSE cipher[i]
        /\ Len(plain) = 2 => plain[2] = cipher

C10_Witness ==
    /\ Len(plain) = 2
    /\ Len(cipher) = 253
    /\ plain[1] # cipher
    /\ plain[2] = cipher

-----------------------------------------------------------------------------
(* C11..C20 *)

\* The bytes of an item's value region
ValueBytes(e) == SubSeq(tvb, e.voff + 1, e.voff + e.vlen)

\* C11: a dissection that runs interleaved with another one gives what it
\* gives alone: while its walker runs the key context holds the bytes copied
\* from its own packet and the accumulated EAP bytes are those of its own
\* fragments, every decrypted value is the transform of its own value bytes
\* under its own key context, and the blob handed to the EAP dissector is the
\* concatenation of its own fragments.
C11_InterleavedDecodesIndependent ==
    /\ pc \in {"walk", "post_loop"} =>
          /\ authenticator = CopiedAuthenticator(tvb)
          /\ SubSeq(eap_buffer, 1, eap_tot_len) = EapValueBytes(tvb, 20, offset - 20)
    /\ \A i \in 1..Len(events) :
          events[i].note = "Decrypted" =>
              events[i].out = radius_decrypt_avp(ValueBytes(events[i]), events[i].vlen,
                                                 shared_secret, CopiedAuthenticator(tvb))
    /\ \A i \in 1..Len(eap_calls) :
          eap_calls[i] = EapValueBytes(tvb, 20, RhLength(tvb) - 20)

\* C12: the dissection of a packet gives the same result (outcome, items with
\* their decrypted values, EAP segment count, accumulated size, completion
\* flag, reassembled bytes, key context) whatever was dissected before it, the
\* first dissection of a run being the one with nothing before it; and every
\* walker starts with an empty EAP reassembly state and the key context
\* copied from its own packet.
C12_SequentialDecodesIndependent ==
    /\ pc = "done" =>
          \A i \in 1..Len(seen) :
              (seen[i].tvb = tvb /\ seen[i].tree = tree) => seen[i].result = Result
    /\ (pc = "walk" /\ offset = hdrlength) =>
          /\ eap_tot_len = 0
          /\ eap_seg_num = 0
          /\ ~last_eap
          /\ eap_tvb = -1
          /\ authenticator = CopiedAuthenticator(tvb)

C12_Witness ==
    /\ pc = "done"
    /\ Len(seen) = 2
    /\ seen[1].tvb = tvb
    /\ seen[1].tree
    /\ tree
    /\ seen[2].tvb # tvb
    /\ seen[2].tree
    /\ seen[2].result.eap_calls = <<Fill(5, 101)>>
    /\ eap_calls = <<Fill(5, 1)>>
    /\ \E i \in 1..Len(events) : events[i].note = "Decrypted"
    /\ \E i \in 1..Len(seen[2].result.events) : seen[2].result.events[i].note = "Decrypted"

\* The descriptors of one attribute space of a dictionary: the standard one
\* for vendor 0, else the vendor's, empty when the vendor is not there
Descriptors(d, v) ==
    IF v = 0 THEN d.attrs_by_id
    ELSE IF v \in DOMAIN d.vendors_by_id THEN d.vendors_by_id[v].attrs_by_id
    ELSE <<>>

HasDescriptor(d, v, c) == c \in DOMAIN Descriptors(d, v)

\* The calls made so far that registered the pair (v, c)
RegistrationsOf(v, c) ==
    {i \in 1..Len(registered) : registered[i][1] = v /\ registered[i][2] = c}

\* The dissector the latest of them registered
LastRegistered(v, c) ==
    registered[CHOOSE i \in RegistrationsOf(v, c) :
                  \A j \in RegistrationsOf(v, c) : j <= i][3]

\* A descriptor but for its dissector
SameButDissector(a, b) == [a EXCEPT !.dissector = "NULL"] = [b EXCEPT !.dissector = "NULL"]

\* C13: after any registrations, every registered (vendor, code) pair has a
\* descriptor whose dissector is the one registered last for it; a vendor or
\* attribute the dictionary lacked was created as Unknown-Vendor-<id> or
\* Unknown-Attribute-<code>, one it had keeps its other fields; the
\* descriptors of all pairs never registered are as they were; and a
\* registration that repeats the one before it leaves the dictionary as it is.
C13_RegisterInstallsDecoder ==
    /\ [](\A v \in RegisterVendors \cup DOMAIN dict.vendors_by_id \cup {26} :
           /\ (v # 0 /\ v \in DOMAIN HandoffDictionary.vendors_by_id) =>
                  /\ v \in DOMAIN dict.vendors_by_id
                  /\ dict.vendors_by_id[v].name = HandoffDictionary.vendors_by_id[v].name
           /\ (v # 0 /\ v \notin DOMAIN HandoffDictionary.vendors_by_id
                      /\ v \in DOMAIN dict.vendors_by_id) =>
                  /\ dict.vendors_by_id[v].name = <<"Unknown-Vendor-", v>>
                  /\ \E c \in RegisterCodes : RegistrationsOf(v, c) # {}
           /\ \A c \in RegisterCodes \cup DOMAIN Descriptors(dict, v)
                        \cup DOMAIN Descriptors(HandoffDictionary, v) :
                  IF RegistrationsOf(v, c) # {}
                  THEN /\ HasDescriptor(dict, v, c)
                       /\ Descriptors(dict, v)[c].dissector = LastRegistered(v, c)
                       /\ Descriptors(dict, v)[c].code = c
                       /\ IF HasDescriptor(HandoffDictionary, v, c)
                          THEN SameButDissector(Descriptors(dict, v)[c],
                                                Descriptors(HandoffDictionary, v)[c])
                          ELSE Descriptors(dict, v)[c].name = <<"Unknown-Attribute-", c>>
                  ELSE /\ HasDescriptor(dict, v, c) = HasDescriptor(HandoffDictionary, v, c)
                       /\ HasDescriptor(dict, v, c) =>
                              Descriptors(dict, v)[c] = Descriptors(HandoffDictionary, v)[c])
    /\ [][ (/\ Len(registered') = Len(registered) + 1
            /\ Len(registered) >= 1
            /\ registered'[Len(registered')] = registered[Len(registered)])
              => dict' = dict ]_vars

C13_Witness ==
    /\ registered = << <<311, 7, "plugin_avp_dissector">>, <<311, 7, "dissect_cosine_vpvc">> >>
    /\ dict.vendors_by_id[311].name = <<"Unknown-Vendor-", 311>>
    /\ dict.vendors_by_id[311].attrs_by_id[7].name = <<"Unknown-Attribute-", 7>>
    /\ dict.vendors_by_id[311].attrs_by_id[7].dissector = "dissect_cosine_vpvc"

\* The AVP at off is complete in the buffer, declares at least 3 bytes, and at
\* least the 8 bytes of its header when it is Vendor-Specific
WholeAvpAt(off) ==
    /\ tvb_bytes_exist(tvb, off, AvpHeaderLength)
    /\ tvb[off + 2] >= 3
    /\ tvb_bytes_exist(tvb, off, tvb[off + 2])
    /\ (tvb[off + 1] = 26 => tvb[off + 2] >= 8)

\* The width of the header of the AVP at off
HeaderWidth(off) == IF tvb[off + 1] = 26 THEN 8 ELSE 2

\* The dictionary has no entry for the AVP at off: for its code, for its
\* vendor-id, or for its sub-type within its vendor
UnknownAt(off) ==
    IF tvb[off + 1] = 26
    THEN LET v == tvb_get_ntohl(tvb, off + 2)
         IN  \/ v \notin DOMAIN dict.vendors_by_id
             \/ tvb[off + 7] \notin DOMAIN dict.vendors_by_id[v].attrs_by_id
    ELSE tvb[off + 1] # 79 /\ tvb[off + 1] \notin DOMAIN dict.attrs_by_id

\* C14: when the walker stands at a complete AVP for which the dictionary has
\* no entry, the pass over it adds one item named Unknown-Attribute that shows
\* the AVP's raw value bytes, without a tag and without an error note, and
\* leaves the walker running (or at its normal end when the region is used
\* up) with the cursor at the AVP's start plus its declared length.
C14_UnknownAttributeContinues ==
    [][ (AtAvp /\ WholeAvpAt(offset) /\ UnknownAt(offset)) =>
            /\ pc' = (IF length - tvb[offset + 2] > 0 THEN "walk" ELSE "post_loop")
            /\ outcome' = outcome
            /\ offset' = offset + tvb[offset + 2]
            /\ length' = length - tvb[offset + 2]
            /\ Len(events') = Len(events) + 1
            /\ SubSeq(events', 1, Len(events)) = events
            /\ LET e == events'[Len(events')]
               IN  /\ e.kind = "attr"
                   /\ e.at = offset
                   /\ e.name = <<"Unknown-Attribute">>
                   /\ e.tag = -1
                   /\ e.note = ""
                   /\ e.out = SubSeq(tvb, offset + HeaderWidth(offset) + 1,
                                     offset + tvb[offset + 2]) ]_vars

C14_Witness ==
    /\ pc = "done"
    /\ outcome = "ok"
    /\ Len(events) = 4
    /\ events[1].name = <<"Unknown-Attribute">>
    /\ events[1].vendor = <<"Unknown">>
    /\ events[1].out = <<50, 51>>
    /\ events[2].name = <<"Unknown-Attribute">>
    /\ events[2].vendor = <<"Cisco">>
    /\ events[2].out = <<60>>
    /\ events[3].name = <<"Unknown-Attribute">>
    /\ events[3].avp_type = 200
    /\ events[4].name = <<"User-Name">>

\* The descriptor the dictionary gives for the AVP at off
DescriptorAt(off) ==
    IF UnknownAt(off) THEN no_dictionary_entry
    ELSE IF tvb[off + 1] = 26
    THEN dict.vendors_by_id[tvb_get_ntohl(tvb, off + 2)].attrs_by_id[tvb[off + 7]]
    ELSE dict.attrs_by_id[tvb[off + 1]]

\* Where the effective value of the AVP at off starts, and its length
ValueStart(off) == off + HeaderWidth(off)
ValueLength(off) == tvb[off + 2] - HeaderWidth(off)

\* C15: for every decoded attribute with at least one effective-value byte: a
\* tagged descriptor and a first value byte up to 0x1f give that byte as the
\* Tag and a value region one byte later and one byte shorter; a tagged
\* descriptor and a first value byte from 0x20 give no Tag and the whole
\* value region; an untagged descriptor gives no Tag and the whole value
\* region.  After every item the cursor is at the AVP's start plus its outer
\* declared length.
C15_TagExtraction ==
    /\ \A i \in 1..Len(events) :
          LET e == events[i]
              first == ValueStart(e.at)
              byte == tvb[first + 1]
          IN  (e.kind = "attr" /\ ValueLength(e.at) >= 1) =>
                  IF DescriptorAt(e.at).tagged /\ byte <= 31
                  THEN /\ e.tag = byte
                       /\ e.voff = first + 1
                       /\ e.vlen = ValueLength(e.at) - 1
                  ELSE /\ e.tag = -1
                       /\ e.voff = first
                       /\ e.vlen = ValueLength(e.at)
    /\ \A i \in 1..(Len(events) - 1) :
          events[i + 1].at = events[i].at + events[i].avp_length
    /\ (events # <<>> /\ (pc \in {"walk", "post_loop"} \/ outcome = "ok")) =>
          offset = events[Len(events)].at + events[Len(events)].avp_length

C15_Witness ==
    /\ pc = "done"
    /\ outcome = "ok"
    /\ Len(events) = 5
    /\ events[1].avp_type = 64 /\ events[1].tag = 31 /\ events[1].vlen = 3
    /\ events[2].avp_type = 64 /\ events[2].tag = -1 /\ events[2].vlen = 4
    /\ events[3].avp_type = 26 /\ events[3].tag = 31 /\ events[3].out = <<7, 8>>
    /\ events[4].avp_type = 26 /\ events[4].tag = -1 /\ events[4].out = <<32, 7, 8>>
    /\ events[5].name = <<"User-Name">> /\ events[5].tag = -1

\* The length of the value the decoder is handed for the AVP at off: the
\* effective value without the Tag
DecodedLength(off) ==
    IF DescriptorAt(off).tagged /\ tvb[ValueStart(off) + 1] <= 31
    THEN ValueLength(off) - 1 ELSE ValueLength(off)

\* The AVP at off goes to a decoder for a fixed-size value with another size
WrongLengthAt(off) ==
    /\ tvb[off + 1] # 79
    /\ DescriptorAt(off).dissector = "NULL"
    /\ \/ DescriptorAt(off).type \in {"radius_ipaddr", "radius_date"}
             /\ DecodedLength(off) # 4
       \/ DescriptorAt(off).type = "radius_ipv6addr" /\ DecodedLength(off) # 16

\* C16: when the walker stands at a complete AVP whose descriptor is an IPv4
\* address or a timestamp and whose value is not 4 bytes, or an IPv6 address
\* and not 16 bytes, the pass adds one item that carries the wrong-length note
\* and no value, and leaves the walker running (or at its normal end when
\* the region is used up) with the cursor at the AVP's start plus its
\* declared length.
C16_WrongLengthNotFatal ==
    [][ (AtAvp /\ WholeAvpAt(offset) /\ WrongLengthAt(offset)) =>
            /\ pc' = (IF length - tvb[offset + 2] > 0 THEN "walk" ELSE "post_loop")
            /\ outcome' = outcome
            /\ offset' = offset + tvb[offset + 2]
            /\ length' = length - tvb[offset + 2]
            /\ Len(events') = Len(events) + 1
            /\ SubSeq(events', 1, Len(events)) = events
            /\ LET e == events'[Len(events')]
               IN  /\ e.kind = "attr"
                   /\ e.at = offset
                   /\ e.name = DescriptorAt(offset).name
                   /\ e.out = <<>>
                   /\ e.note =
                         (IF DescriptorAt(offset).type = "radius_ipaddr"
                          THEN "[wrong lenght for IP address]"
                          ELSE IF DescriptorAt(offset).type = "radius_date"
                          THEN "[wrong lenght for timestamp]"
                          ELSE "[wrong lenght for IPv6 address]") ]_vars

C16_Witness ==
    /\ pc = "done"
    /\ outcome = "ok"
    /\ Len(events) = 4
    /\ events[1].name = <<"NAS-IP-Address">>
    /\ events[1].note = "[wrong lenght for IP address]"
    /\ events[2].name = <<"Event-Timestamp">>
    /\ events[2].note = "[wrong lenght for timestamp]"
    /\ events[3].name = <<"NAS-IPv6-Address">>
    /\ events[3].note = "[wrong lenght for IPv6 address]"
    /\ events[4].name = <<"User-Name">>
    /\ events[4].out = <<97, 98, 99>>

\* C17: in a datagram that holds all the bytes its header declares, an
\* EAP-Message fragment is marked last exactly when the region ends with it
\* or the AVP after it in the region is not an EAP-Message.
C17_LastFragmentDetection ==
    (HeaderRead /\ Len(tvb) >= RhLength(tvb)) =>
        \A i \in 1..Len(events) :
            LET e == events[i]
                next == e.at + e.avp_length
            IN  e.kind = "eap" =>
                    ((e.note = "Last Segment")
                        <=> (next >= RhLength(tvb) \/ tvb[next + 1] # 79))

\* C18: for every decoded Vendor-Specific AVP that is complete in the buffer,
\* the value region handed to the decoder starts after the 8-byte header (and
\* after the Tag when one was extracted) and holds the sub-value: sub_length - 2
\* bytes (less the Tag byte), sub_length being the byte at offset 7 of the AVP.
C18_VendorValueIsSubValue ==
    \A i \in 1..Len(events) :
        LET e == events[i]
            sub_length == tvb[e.at + 8]
            tag_width == IF e.tag # -1 THEN 1 ELSE 0
        IN  (e.kind = "attr" /\ e.avp_type = 26 /\ WholeAvpAt(e.at)) =>
                /\ e.voff = e.at + 8 + tag_width
                /\ e.vlen = sub_length - 2 - tag_width

\* The registrations of the pair the AVP at off resolves to: the standard
\* space for a plain AVP, the vendor's for a Vendor-Specific one
RegistrationsAt(off) ==
    IF tvb[off + 1] = 26
    THEN (IF tvb_get_ntohl(tvb, off + 2) = 0 THEN {}
          ELSE RegistrationsOf(tvb_get_ntohl(tvb, off + 2), tvb[off + 7]))
    ELSE RegistrationsOf(0, tvb[off + 1])

\* What the dissector named d returns for a value
DissectorResult(d, value) ==
    IF d = "dissect_cosine_vpvc" THEN dissect_cosine_vpvc(value)
    ELSE plugin_avp_dissector(value)

\* C19: after any registrations, every item of a complete AVP of a pair that
\* was registered is the work of the dissector registered last for it, called on
\* the value that starts after the AVP's header and the extracted Tag, with
\* the note and the string it returned, and not of the descriptor's type
\* decoder; every item of a complete AVP whose descriptor has no dissector is
\* the work of the descriptor's type decoder.
C19_RegisteredDissectorIsUsed ==
    \A i \in 1..Len(events) :
        LET e == events[i]
            a == DescriptorAt(e.at)
            tag_width == IF e.tag # -1 THEN 1 ELSE 0
        IN  (e.kind = "attr" /\ WholeAvpAt(e.at)) =>
                /\ RegistrationsAt(e.at) # {} =>
                      /\ a.dissector = registered[CHOOSE k \in RegistrationsAt(e.at) :
                                           \A j \in RegistrationsAt(e.at) : j <= k][3]
                      /\ e.by = a.dissector
                /\ a.dissector # "NULL" =>
                      /\ e.by = a.dissector
                      /\ e.by # a.type
                      /\ e.voff = ValueStart(e.at) + tag_width
                      /\ e.vlen = ValueLength(e.at) - tag_width
                      /\ e.note = DissectorResult(a.dissector,
                                       RegionBytes(tvb, e.voff, e.vlen)).note
                      /\ e.out = DissectorResult(a.dissector,
                                      RegionBytes(tvb, e.voff, e.vlen)).out
                /\ a.dissector = "NULL" => e.by = a.type

\* C20: the walker is only ever at the top of its loop with a positive
\* remaining length and with three bytes of the region used per AVP processed
\* so far; every pass either ends the walk or adds one item and takes at
\* least 3 off the remaining length, going round again only while it is
\* positive; so no more than ceil(region length / 3) AVPs are processed, and
\* every dissection ends.
C20_WalkerTerminates ==
    /\ [](pc = "walk" =>
             /\ length > 0
             /\ 3 * Len(events) <= AvpLength(RhLength(tvb)) - length)
    /\ [](events # <<>> => 3 * Len(events) <= AvpLength(RhLength(tvb)) + 2)
    /\ [][ pc = "walk" =>
              \/ pc' = "done"
              \/ /\ length' <= length - 3
                 /\ Len(events') = Len(events) + 1
                 /\ pc' = (IF length' > 0 THEN "walk" ELSE "post_loop") ]_vars
    /\ <>(pc = "done")

C20_Witness ==
    /\ pc = "done"
    /\ outcome = "ok"
    /\ Len(events) = 3
    /\ AvpLength(RhLength(tvb)) = 9
    /\ length = 0

-----------------------------------------------------------------------------
(* C21..C23 *)

\* Two buffers hold the same packet: the same total_length, both complete,
\* the same bytes below total_length
SamePacket(t1, t2) ==
    /\ tvb_bytes_exist(t1, 0, hdrlength)
    /\ tvb_bytes_exist(t2, 0, hdrlength)
    /\ RhLength(t1) = RhLength(t2)
    /\ RhLength(t1) >= hdrlength
    /\ tvb_bytes_exist(t1, 0, RhLength(t1))
    /\ tvb_bytes_exist(t2, 0, RhLength(t2))
    /\ SubSeq(t1, 1, RhLength(t1)) = SubSeq(t2, 1, RhLength(t2))

\* The item's AVP and its value lie in the AVP region [20, total_length)
InsideRegion(e) ==
    /\ e.at >= hdrlength
    /\ e.at + e.avp_length <= RhLength(tvb)
    /\ e.voff >= hdrlength
    /\ e.voff + e.vlen <= RhLength(tvb)

\* C21: the walker reads and decodes only bytes of the AVP region
\* [20, total_length): every item added for a complete packet lies in the
\* region, and two dissections of the same packet that differ only in the
\* bytes after total_length add the same items.
C21_PaddingNeverInfluences ==
    (pc = "done" /\ tree /\ SamePacket(tvb, tvb)) =>
        /\ \A i \in 1..Len(events) : InsideRegion(events[i])
        /\ \A i \in 1..Len(seen) :
              (seen[i].tree /\ SamePacket(seen[i].tvb, tvb))
                  => seen[i].result.events = events

\* C22: the string radius_decrypt_avp writes fits the 1024-byte buffer of
\* radius_string: the walker hands the string decoder no value longer than
\* 253 bytes, and for every value it decrypts the string with its terminator
\* takes at most 4 characters per value byte plus 3, which is at most 1024.
C22_DecryptedStringFits ==
    \A i \in 1..Len(events) :
        LET e == events[i]
            bytes == IF e.vlen > 0 THEN e.vlen ELSE 0
        IN  /\ e.by = "radius_string" => e.vlen <= MaxValueLength
            /\ e.note = "Decrypted" =>
                  /\ Len(e.out) + 1 <= 4 * bytes + 3
                  /\ 4 * bytes + 3 <= BufferSize
                  /\ Len(e.out) + 1 <= BufferSize

C22_Witness ==
    \E i \in 1..Len(events) :
        /\ events[i].note = "Decrypted"
        /\ events[i].vlen = MaxValueLength
        /\ Len(events[i].out) + 1 = 4 * MaxValueLength + 3

\* The vendor-id and the sub-type of the Vendor-Specific AVP at off
VendorAt(off) == tvb_get_ntohl(tvb, off + 2)
SubTypeAt(off) == tvb[off + 7]

\* C23: a registration for vendor 0 leaves the vendor table as it is and
\* changes the top-level table at that code only, where the entry, created
\* as Unknown-Attribute-<code> if there was none, gets the dissector; after
\* it every item of a complete plain AVP of that code is the work of the
\* dissector registered last for (0, code), called on the AVP's whole value;
\* and an item of a Vendor-Specific AVP is the work of a registered dissector
\* only if that dissector was registered for the AVP's own non-zero vendor.
C23_VendorZeroRegistersTopLevel ==
    /\ [][ (/\ Len(registered') = Len(registered) + 1
            /\ registered'[Len(registered')][1] = 0)
              => LET code == registered'[Len(registered')][2]
                     d == registered'[Len(registered')][3]
                 IN  /\ dict'.vendors_by_id = dict.vendors_by_id
                     /\ DOMAIN dict'.attrs_by_id = DOMAIN dict.attrs_by_id \cup {code}
                     /\ \A c \in DOMAIN dict.attrs_by_id :
                           c # code => dict'.attrs_by_id[c] = dict.attrs_by_id[c]
                     /\ dict'.attrs_by_id[code].dissector = d
                     /\ IF code \in DOMAIN dict.attrs_by_id
                        THEN SameButDissector(dict'.attrs_by_id[code],
                                              dict.attrs_by_id[code])
                        ELSE dict'.attrs_by_id[code].name = <<"Unknown-Attribute-", code>>
          ]_vars
    /\ [](\A i \in 1..Len(events) :
            LET e == events[i]
            IN  (e.kind = "attr" /\ WholeAvpAt(e.at)) =>
                  IF e.avp_type = RADIUS_VENDOR_SPECIFIC_CODE
                  THEN e.by \in AvpDissectors =>
                          /\ VendorAt(e.at) # 0
                          /\ \/ RegistrationsOf(VendorAt(e.at), SubTypeAt(e.at)) # {}
                             \/ (VendorAt(e.at) = VENDOR_COSINE /\ SubTypeAt(e.at) = 5)
                  ELSE RegistrationsOf(0, e.avp_type) # {} =>
                          /\ e.by = LastRegistered(0, e.avp_type)
                          /\ e.tag = -1
                          /\ e.voff = e.at + AvpHeaderLength
                          /\ e.vlen = e.avp_length - AvpHeaderLength)

====
